---- MODULE Spec2Model ----
(***************************************************************************)
(* Model of pyright-ignore.py: a command line tool that reads a pyright    *)
(* JSON report and appends "# type: ignore" to the reported lines, or      *)
(* strips a trailing "# type: ignore" / "# pyright: ignore" from the lines *)
(* reported as reportUnnecessaryTypeIgnoreComment.                         *)
(*                                                                         *)
(* A line of text is a sequence of one-character strings, so that strip,   *)
(* rstrip, endswith and split are computed character by character.         *)
(***************************************************************************)
EXTENDS Integers, Sequences, FiniteSets, TLC

(***************************************************************************)
(* Bounds of the model.                                                    *)
(***************************************************************************)
\* the largest number of diagnostics of one report
MaxDiags == 2
\* the largest number of lines of a.py in Init
MaxLines == 1
\* the largest number of pieces a generated line is made of (InitRerun)
MaxPieces == 2

(***************************************************************************)
(* Text: the str methods the program uses.                                 *)
(***************************************************************************)
Whitespace == {" ", "\t", "\n", "\r"}

RECURSIVE rstrip(_)
rstrip(s) ==
    IF s # <<>> /\ s[Len(s)] \in Whitespace
    THEN rstrip(SubSeq(s, 1, Len(s) - 1))
    ELSE s

RECURSIVE lstrip(_)
lstrip(s) ==
    IF s # <<>> /\ s[1] \in Whitespace
    THEN lstrip(Tail(s))
    ELSE s

strip(s) == lstrip(rstrip(s))

endswith(s, suffix) ==
    /\ Len(suffix) <= Len(s)
    /\ SubSeq(s, Len(s) - Len(suffix) + 1, Len(s)) = suffix

\* the positions at which sep occurs in s
Occurrences(s, sep) ==
    { i \in 1..(Len(s) - Len(sep) + 1) : SubSeq(s, i, i + Len(sep) - 1) = sep }

Min(S) == CHOOSE x \in S : \A y \in S : x <= y

\* s.split(sep)[0]: the text before the FIRST occurrence of sep, all of s
\* when sep does not occur
split0(s, sep) ==
    IF Occurrences(s, sep) = {}
    THEN s
    ELSE SubSeq(s, 1, Min(Occurrences(s, sep)) - 1)

TYPE_IGNORE == <<"#", " ", "t", "y", "p", "e", ":", " ", "i", "g", "n", "o", "r", "e">>

PYRIGHT_IGNORE ==
    <<"#", " ", "p", "y", "r", "i", "g", "h", "t", ":", " ", "i", "g", "n", "o", "r", "e">>

UNNECESSARY == "reportUnnecessaryTypeIgnoreComment"

\* line 35: lines[line_number].strip().endswith("# type: ignore")
HasTypeIgnoreNever(text) == FALSE

HasTypeIgnore(text) == endswith(strip(text), TYPE_IGNORE)

\* line 51: lines[line_number].strip().endswith("# pyright: ignore")
HasPyrightIgnoreAlways(text) == TRUE

HasPyrightIgnore(text) == endswith(strip(text), PYRIGHT_IGNORE)

\* line 36: lines[line_number].rstrip() + "  # type: ignore\n"
AddCommentNoStrip(text) == text \o <<" ", " ">> \o TYPE_IGNORE \o <<"\n">>

AddComment(text) == rstrip(text) \o <<" ", " ">> \o TYPE_IGNORE \o <<"\n">>

\* lines 48-50 and 52-54: lines[line_number].split(marker)[0].rstrip() + "\n"
RemoveComment(text, marker) == rstrip(split0(text, marker)) \o <<"\n">>

\* lines 29 and 32: 0 <= line_number < len(lines)
InRangeInclusive(line_number, lines) == 0 <= line_number /\ line_number <= Len(lines)

InRange(line_number, lines) == 0 <= line_number /\ line_number < Len(lines)

\* line 38: line_number >= len(lines)
PastEndStrict(line_number, lines) == line_number > Len(lines)

PastEnd(line_number, lines) == line_number >= Len(lines)

\* lines[line_number] of a Python list: a negative index counts from the end,
\* an index outside -len .. len-1 raises IndexError
IndexOK(line_number, lines) == -Len(lines) <= line_number /\ line_number < Len(lines)

Position(line_number, lines) ==
    IF line_number < 0 THEN Len(lines) + line_number + 1 ELSE line_number + 1

Item(lines, line_number) == lines[Position(line_number, lines)]

SetItem(lines, line_number, text) ==
    [lines EXCEPT ![Position(line_number, lines)] = text]

\* lines 61-77: if inplace / elif show_diff / else
OutputModeDiffWrites(inplace, show_diff) ==
    IF inplace \/ show_diff THEN "inplace" ELSE "plain"

OutputMode(inplace, show_diff) ==
    IF inplace THEN "inplace" ELSE IF show_diff THEN "diff" ELSE "plain"

(***************************************************************************)
(* State.                                                                  *)
(***************************************************************************)
VARIABLES
    disk,                 \* the files that exist: path -> list of lines
    args,                 \* the parsed command line: inplace, diff
    pc,                   \* where main() is
    todo,                 \* diagnostics of the report not yet iterated
    diagnostic,           \* the loop variable of the first pass
    modified_files,       \* path -> list of lines (the buffers)
    file_order,           \* insertion order of the keys of modified_files
    ignored_lines,        \* path -> lines this run appended a comment to
    remove_ignore_lines,  \* path -> lines whose comment is to be removed
    rem_todo,             \* (path, line) pairs the second pass has yet to visit
    out_idx,              \* index in file_order of the next file to output
    stderr,               \* message kind -> number of messages printed
    stdout,               \* what was printed on standard output
    run,                  \* 1 for the first invocation, 2 for the second
    disk0,                \* history: the disk before the first invocation
    requests,             \* history: in-range requests of this run
    prev                  \* history: the first invocation, once it is over

vars ==
    << disk, args, pc, todo, diagnostic, modified_files, file_order,
       ignored_lines, remove_ignore_lines, rem_todo, out_idx, stderr, stdout,
       run, disk0, requests, prev >>

Messages ==
    { "conflict", "invalid_json", "fault", "not_found", "out_of_range",
      "marker_not_found", "success" }

Emit(kind) == [stderr EXCEPT ![kind] = @ + 1]

NoDiagnostic == [file |-> ""]

NoPrev == [over |-> FALSE]

(***************************************************************************)
(* The inputs: file contents and diagnostics.                              *)
(***************************************************************************)
NL == <<"\n">>

\* the line bodies of the files of Init
SampleBodies ==
    { <<"x">>,
      <<"x", " ", " ">> \o TYPE_IGNORE,
      <<"x", " ">> \o PYRIGHT_IGNORE,
      <<"x", " ">> \o TYPE_IGNORE \o <<"[", "x", "]">> }

\* what readlines() can return for a file of n lines over the given bodies:
\* every line ends with a newline, except possibly the last
Contents(bodies, n) ==
    { [i \in 1..n |-> IF i < n \/ f.nl THEN f.body[i] \o NL ELSE f.body[i]] :
        f \in [body : [1..n -> bodies], nl : BOOLEAN] }

RECURSIVE Flatten(_)
Flatten(pieces) ==
    IF pieces = <<>> THEN <<>> ELSE Head(pieces) \o Flatten(Tail(pieces))

Pieces == { <<"x">>, <<" ">>, TYPE_IGNORE, PYRIGHT_IGNORE }

\* the line bodies of InitRerun: up to MaxPieces pieces, concatenated
GeneratedBodies ==
    UNION { { Flatten(ps) : ps \in [1..n -> Pieces] } : n \in 0..MaxPieces }

Rules == { UNNECESSARY, "reportGeneralTypeIssues" }

LineNumbers == -1..MaxLines

\* the records of "generalDiagnostics"; "rule" is optional in pyright's output
Diagnostics ==
    LET files == DOMAIN disk
        ranges == { [start |-> [line |-> n]] : n \in LineNumbers }
    IN  [file : files, range : ranges, rule : Rules]
        \cup [file : files, range : ranges]
        \cup { [file |-> "missing.py", range |-> [start |-> [line |-> 0]],
                rule |-> "reportGeneralTypeIssues"] }

InitRun ==
    /\ pc = "args"
    /\ todo = 0
    /\ diagnostic = NoDiagnostic
    /\ modified_files = <<>>
    /\ file_order = <<>>
    /\ ignored_lines = <<>>
    /\ remove_ignore_lines = <<>>
    /\ rem_todo = {}
    /\ out_idx = 1
    /\ stderr = [m \in Messages |-> 0]
    /\ stdout = <<>>
    /\ requests = {}

Init ==
    /\ disk \in { [p \in {"a.py", "b.py"} |-> IF p = "a.py" THEN a ELSE b] :
                    a \in UNION { Contents(SampleBodies, n) : n \in 0..MaxLines },
                    b \in { << <<"y", " ", " ">> \o TYPE_IGNORE \o NL >> } }
    /\ args \in [inplace : BOOLEAN, diff : BOOLEAN]
    /\ run = 1
    /\ disk0 = disk
    /\ prev = NoPrev
    /\ InitRun

Extend(f, key, value) == [k \in DOMAIN f \cup {key} |-> IF k = key THEN value ELSE f[k]]

(***************************************************************************)
(* main(), lines 107-124.                                                  *)
(***************************************************************************)
Fail(kind) ==
    /\ stderr' = Emit(kind)
    /\ pc' = "exit1"

\* lines 107-114
ParseArgs ==
    /\ pc = "args"
    /\ IF args.inplace /\ args.diff
       THEN Fail("conflict")
       ELSE pc' = "json" /\ UNCHANGED stderr
    /\ UNCHANGED << disk, args, todo, diagnostic, modified_files, file_order,
                    ignored_lines, remove_ignore_lines, rem_todo, out_idx,
                    stdout, run, disk0, requests, prev >>

\* lines 116-124: json.load, then json_data["generalDiagnostics"]
ReportShapes == { "invalid", "no_diagnostics", "ok" }

LoadReport ==
    /\ pc = "json"
    /\ \E shape \in ReportShapes, n \in 0..MaxDiags :
         CASE shape = "invalid" ->
                Fail("invalid_json") /\ UNCHANGED todo
           [] shape = "no_diagnostics" ->
                Fail("fault") /\ UNCHANGED todo
           [] OTHER ->
                pc' = "classify" /\ todo' = n /\ UNCHANGED stderr
    /\ UNCHANGED << disk, args, diagnostic, modified_files, file_order,
                    ignored_lines, remove_ignore_lines, rem_todo, out_idx,
                    stdout, run, disk0, requests, prev >>

(***************************************************************************)
(* add_type_ignore_comments, first pass: lines 13-42.                      *)
(***************************************************************************)
\* history: the request a diagnostic makes, when its file exists, it has a
\* rule and its line is a line of the file
RequestOf(d) ==
    IF /\ d.file \in DOMAIN disk
       /\ "rule" \in DOMAIN d
       /\ 0 <= d.range.start.line
       /\ d.range.start.line < Len(disk[d.file])
    THEN { << d.file, d.range.start.line,
              IF d.rule = UNNECESSARY THEN "remove" ELSE "add" >> }
    ELSE {}

\* one iteration of the loop of line 13: the values of the dictionaries after
\* it, the message it prints (msg) and whether it raises (fault)
Iteration(d) ==
    LET file_path == d.file
        line_number == d.range.start.line
        known == file_path \in DOMAIN modified_files
        \* lines 19-23
        loaded ==
            [ files |-> IF known THEN modified_files
                        ELSE Extend(modified_files, file_path, disk[file_path]),
              order |-> IF known THEN file_order ELSE Append(file_order, file_path),
              ignored |-> IF known THEN ignored_lines
                          ELSE Extend(ignored_lines, file_path, {}),
              remove |-> IF known THEN remove_ignore_lines
                         ELSE Extend(remove_ignore_lines, file_path, {}),
              msg |-> "",
              fault |-> FALSE ]
        lines == loaded.files[file_path]
    IN  IF file_path \notin DOMAIN disk
        THEN \* lines 15-17
             [ files |-> modified_files, order |-> file_order,
               ignored |-> ignored_lines, remove |-> remove_ignore_lines,
               msg |-> "not_found", fault |-> FALSE ]
        ELSE IF "rule" \notin DOMAIN d
        THEN \* line 28: diagnostic["rule"] raises KeyError
             [loaded EXCEPT !.msg = "fault", !.fault = TRUE]
        ELSE IF d.rule = UNNECESSARY
        THEN \* lines 28-30
             IF InRange(line_number, lines)
             THEN [loaded EXCEPT !.remove[file_path] = @ \cup {line_number}]
             ELSE loaded
        ELSE IF InRange(line_number, lines)
                /\ line_number \notin loaded.ignored[file_path]
        THEN \* lines 31-37
             IF ~IndexOK(line_number, lines)
             THEN [loaded EXCEPT !.msg = "fault", !.fault = TRUE]
             ELSE IF ~HasTypeIgnore(Item(lines, line_number))
             THEN [loaded EXCEPT
                     !.files[file_path] =
                         SetItem(lines, line_number,
                                 AddComment(Item(lines, line_number))),
                     !.ignored[file_path] = @ \cup {line_number}]
             ELSE loaded
        ELSE IF PastEnd(line_number, lines)
        THEN \* lines 38-42
             [loaded EXCEPT !.msg = "out_of_range"]
        ELSE loaded

Classify ==
    /\ pc = "classify"
    /\ todo > 0
    /\ \E d \in Diagnostics :
         LET r == Iteration(d)
         IN  /\ diagnostic' = d
             /\ todo' = todo - 1
             /\ modified_files' = r.files
             /\ file_order' = r.order
             /\ ignored_lines' = r.ignored
             /\ remove_ignore_lines' = r.remove
             /\ stderr' = IF r.msg = "" THEN stderr ELSE Emit(r.msg)
             /\ pc' = IF r.fault THEN "exit1" ELSE pc
             /\ requests' = requests \cup RequestOf(d)
    /\ UNCHANGED << disk, args, rem_todo, out_idx, stdout, run, disk0, prev >>

\* the loop of line 13 is over: the second pass starts
EndClassify ==
    /\ pc = "classify"
    /\ todo = 0
    /\ pc' = "remove"
    /\ rem_todo' = UNION { { << f, n >> : n \in remove_ignore_lines[f] } :
                             f \in DOMAIN remove_ignore_lines }
    /\ UNCHANGED << disk, args, todo, diagnostic, modified_files, file_order,
                    ignored_lines, remove_ignore_lines, out_idx, stderr, stdout,
                    run, disk0, requests, prev >>

(***************************************************************************)
(* add_type_ignore_comments, second pass: lines 45-59.                     *)
(***************************************************************************)
IndexIn(order, file_path) == CHOOSE i \in 1..Len(order) : order[i] = file_path

\* one iteration of the inner loop of line 46. The files are visited in the
\* insertion order of modified_files; the lines of a file are the elements of
\* a set, visited in any order.
RemoveLine ==
    /\ pc = "remove"
    /\ \E t \in rem_todo :
         LET file_path == t[1]
             line_number == t[2]
             lines == modified_files[file_path]
         IN  /\ \A u \in rem_todo :
                   IndexIn(file_order, file_path) <= IndexIn(file_order, u[1])
             /\ rem_todo' = rem_todo \ {t}
             /\ IF ~IndexOK(line_number, lines)
                THEN Fail("fault") /\ UNCHANGED modified_files
                ELSE IF HasTypeIgnore(Item(lines, line_number))
                THEN /\ modified_files' =
                          [modified_files EXCEPT ![file_path] =
                              SetItem(lines, line_number,
                                      RemoveComment(Item(lines, line_number),
                                                    TYPE_IGNORE))]
                     /\ UNCHANGED << stderr, pc >>
                ELSE IF HasPyrightIgnore(Item(lines, line_number))
                THEN /\ modified_files' =
                          [modified_files EXCEPT ![file_path] =
                              SetItem(lines, line_number,
                                      RemoveComment(Item(lines, line_number),
                                                    PYRIGHT_IGNORE))]
                     /\ UNCHANGED << stderr, pc >>
                ELSE /\ stderr' = Emit("marker_not_found")
                     /\ UNCHANGED << modified_files, pc >>
    /\ UNCHANGED << disk, args, todo, diagnostic, file_order, ignored_lines,
                    remove_ignore_lines, out_idx, stdout, run, disk0, requests,
                    prev >>

EndRemove ==
    /\ pc = "remove"
    /\ rem_todo = {}
    /\ pc' = "output"
    /\ out_idx' = 1
    /\ UNCHANGED << disk, args, todo, diagnostic, modified_files, file_order,
                    ignored_lines, remove_ignore_lines, rem_todo, stderr, stdout,
                    run, disk0, requests, prev >>

(***************************************************************************)
(* add_type_ignore_comments, output: lines 61-81.                          *)
(***************************************************************************)
\* file.readlines() of a text: it is cut after every newline
RECURSIVE readlines(_)
readlines(text) ==
    IF text = <<>> THEN <<>>
    ELSE LET ends == { i \in 1..Len(text) : text[i] = "\n" }
         IN  IF ends = {} THEN << text >>
             ELSE << SubSeq(text, 1, Min(ends)) >>
                  \o readlines(SubSeq(text, Min(ends) + 1, Len(text)))

\* what file.writelines(lines) leaves in the file, as readlines() returns it
writelines(lines) == readlines(Flatten(lines))

\* unified_diff(original_lines, modified_lines): nothing when the two are
\* equal, else the lines taken out and the lines put in (context left out)
unified_diff(original_lines, modified_lines, path) ==
    IF original_lines = modified_lines THEN <<>>
    ELSE << [ fromfile |-> path, tofile |-> path,
              minus |-> { << i, original_lines[i] >> :
                            i \in { j \in 1..Len(original_lines) :
                                      j > Len(modified_lines)
                                      \/ original_lines[j] # modified_lines[j] } },
              plus |-> { << i, modified_lines[i] >> :
                           i \in { j \in 1..Len(modified_lines) :
                                     j > Len(original_lines)
                                     \/ original_lines[j] # modified_lines[j] } } ] >>

\* lines 61-64, one iteration
WriteFile ==
    /\ pc = "output"
    /\ OutputMode(args.inplace, args.diff) = "inplace"
    /\ out_idx <= Len(file_order)
    /\ disk' = [disk EXCEPT ![file_order[out_idx]] =
                   writelines(modified_files[file_order[out_idx]])]
    /\ out_idx' = out_idx + 1
    /\ UNCHANGED << args, pc, todo, diagnostic, modified_files, file_order,
                    ignored_lines, remove_ignore_lines, rem_todo, stderr, stdout,
                    run, disk0, requests, prev >>

\* lines 66-76, one iteration
ShowDiff ==
    /\ pc = "output"
    /\ OutputMode(args.inplace, args.diff) = "diff"
    /\ out_idx <= Len(file_order)
    /\ stdout' = stdout \o unified_diff(disk[file_order[out_idx]],
                                        modified_files[file_order[out_idx]],
                                        file_order[out_idx])
    /\ out_idx' = out_idx + 1
    /\ UNCHANGED << disk, args, pc, todo, diagnostic, modified_files, file_order,
                    ignored_lines, remove_ignore_lines, rem_todo, stderr, run,
                    disk0, requests, prev >>

\* lines 77-81, one iteration
PrintFile ==
    /\ pc = "output"
    /\ OutputMode(args.inplace, args.diff) = "plain"
    /\ out_idx <= Len(file_order)
    /\ stdout' = stdout \o << [ header |-> file_order[out_idx],
                                lines |-> modified_files[file_order[out_idx]] ] >>
    /\ out_idx' = out_idx + 1
    /\ UNCHANGED << disk, args, pc, todo, diagnostic, modified_files, file_order,
                    ignored_lines, remove_ignore_lines, rem_todo, stderr, run,
                    disk0, requests, prev >>

\* the loop of the output is over (line 65 in in-place mode); main returns
Finish ==
    /\ pc = "output"
    /\ out_idx > Len(file_order)
    /\ stderr' = IF OutputMode(args.inplace, args.diff) = "inplace"
                 THEN Emit("success") ELSE stderr
    /\ pc' = "done"
    /\ UNCHANGED << disk, args, todo, diagnostic, modified_files, file_order,
                    ignored_lines, remove_ignore_lines, rem_todo, out_idx, stdout,
                    run, disk0, requests, prev >>

Next ==
    \/ ParseArgs
    \/ LoadReport
    \/ Classify
    \/ EndClassify
    \/ RemoveLine
    \/ EndRemove
    \/ WriteFile
    \/ ShowDiff
    \/ PrintFile
    \/ Finish

Spec == Init /\ [][Next]_vars

(***************************************************************************)
(* Two invocations in a row: the second one reads the files the first one  *)
(* left, with the same flags and a report of its own.                      *)
(***************************************************************************)
InitRerun ==
    /\ disk \in { [p \in {"a.py"} |-> c] :
                    c \in { d \in Contents(GeneratedBodies, 1) : d[1] # <<>> } }
    /\ args \in [inplace : BOOLEAN, diff : BOOLEAN]
    /\ run = 1
    /\ disk0 = disk
    /\ prev = NoPrev
    /\ InitRun

\* lines 130-131: the program is started again
Rerun ==
    /\ pc = "done"
    /\ run = 1
    /\ run' = 2
    /\ prev' = [ over |-> TRUE,
                 requests |-> requests,
                 disk |-> disk,
                 written |-> OutputMode(args.inplace, args.diff) = "inplace" ]
    /\ pc' = "args"
    /\ todo' = 0
    /\ diagnostic' = NoDiagnostic
    /\ modified_files' = <<>>
    /\ file_order' = <<>>
    /\ ignored_lines' = <<>>
    /\ remove_ignore_lines' = <<>>
    /\ rem_todo' = {}
    /\ out_idx' = 1
    /\ stderr' = [m \in Messages |-> 0]
    /\ stdout' = <<>>
    /\ requests' = {}
    /\ UNCHANGED << disk, args, disk0 >>

NextRerun ==
    \/ Next
    \/ Rerun

SpecRerun == InitRerun /\ [][NextRerun]_vars

TypeOK ==
    /\ pc \in { "args", "json", "classify", "remove", "output", "done", "exit1" }
    /\ todo \in 0..MaxDiags
    /\ DOMAIN modified_files \subseteq DOMAIN disk
    /\ run \in 1..2

(***************************************************************************)
(* Vocabulary of the properties.                                           *)
(***************************************************************************)
\* both passes of add_type_ignore_comments are over
PassesOver == pc \in { "output", "done" }

\* line n (0-based) of file f, in a dictionary of lists of lines
LineOf(files, f, n) == files[f][n + 1]

Asks(f, n, kind) == << f, n, kind >> \in requests

Targets == { << r[1], r[2] >> : r \in requests }

EndsWith(text, marker) == endswith(strip(text), marker)

Contains(text, marker) == Occurrences(text, marker) # {}

Max(S) == CHOOSE x \in S : \A y \in S : y <= x

\* the text with its trailing newlines replaced by exactly one
RECURSIVE DropNewlines(_)
DropNewlines(text) ==
    IF text # <<>> /\ text[Len(text)] = "\n"
    THEN DropNewlines(SubSeq(text, 1, Len(text) - 1))
    ELSE text

NormalizeNewline(text) == DropNewlines(text) \o NL

\* the text before the LAST occurrence of the marker, trailing whitespace
\* trimmed, one newline appended
BeforeTrailing(text, marker) ==
    rstrip(SubSeq(text, 1, Max(Occurrences(text, marker)) - 1)) \o NL

\* the step is an iteration of the first pass
Iterates == pc = "classify" /\ todo' = todo - 1

\* the diagnostic the step iterates on names an existing file and has a rule
Ruled(d) == d.file \in DOMAIN disk /\ "rule" \in DOMAIN d

LineNo(d) == d.range.start.line

\* no buffer is changed by the step (a buffer the step loads is the file)
BuffersKept ==
    \A f \in DOMAIN modified_files' :
        modified_files'[f] = IF f \in DOMAIN modified_files
                             THEN modified_files[f] ELSE disk[f]

(***************************************************************************)
(* C1. Ordering invariant: when an addition and a removal of the same run  *)
(* target the same line of a file, the line contains the "# type: ignore"  *)
(* marker once both passes are over.                                       *)
(***************************************************************************)
C1_OrderingKeepsMarker ==
    PassesOver =>
        \A t \in Targets :
            (Asks(t[1], t[2], "add") /\ Asks(t[1], t[2], "remove"))
                => Contains(LineOf(modified_files, t[1], t[2]), TYPE_IGNORE)

(***************************************************************************)
(* C2. A diagnostic without a "rule" key is an addition request: the run   *)
(* does not fail on it, and its line, when in range, ends with the marker  *)
(* after the iteration.                                                    *)
(***************************************************************************)
C2_MissingRuleIsAddition ==
    ( /\ pc \in { "classify", "exit1" }
      /\ diagnostic.file \in DOMAIN disk
      /\ "rule" \notin DOMAIN diagnostic )
        => /\ pc # "exit1"
           /\ stderr["fault"] = 0
           /\ (0 <= LineNo(diagnostic)
               /\ LineNo(diagnostic) < Len(disk[diagnostic.file]))
                  => EndsWith(LineOf(modified_files, diagnostic.file,
                                     LineNo(diagnostic)), TYPE_IGNORE)

(***************************************************************************)
(* C3. Round trip: a line that does not end with a suppression marker,     *)
(* which a first in-place run adds the marker to and a second run removes  *)
(* the marker from, is the original line with its newline normalized.      *)
(***************************************************************************)
C3_RoundTrip ==
    ( /\ run = 2
      /\ PassesOver
      /\ prev.written )
        => \A t \in Targets :
              ( /\ prev.requests = { << t[1], t[2], "add" >> }
                /\ requests = { << t[1], t[2], "remove" >> }
                /\ ~EndsWith(LineOf(disk0, t[1], t[2]), TYPE_IGNORE)
                /\ ~EndsWith(LineOf(disk0, t[1], t[2]), PYRIGHT_IGNORE) )
                  => LineOf(modified_files, t[1], t[2])
                        = NormalizeNewline(LineOf(disk0, t[1], t[2]))

(***************************************************************************)
(* C4. Idempotence of addition: when the first run, in place, and the      *)
(* second run make addition requests only, and the second makes no request *)
(* the first did not make (as with the same report), the second run leaves *)
(* every line as the first run wrote it, and no line holds more than one   *)
(* "# type: ignore" more than the original line.                           *)
(***************************************************************************)
C4_AdditionIdempotent ==
    ( /\ run = 2
      /\ prev.written
      /\ requests \subseteq prev.requests
      /\ \A r \in prev.requests : r[3] = "add" )
        => /\ \A f \in DOMAIN modified_files : modified_files[f] = prev.disk[f]
           /\ disk = prev.disk
           /\ \A f \in DOMAIN modified_files :
                \A i \in 1..Len(modified_files[f]) :
                    Cardinality(Occurrences(modified_files[f][i], TYPE_IGNORE))
                        <= Cardinality(Occurrences(disk0[f][i], TYPE_IGNORE)) + 1

\* the second run is over, on the report that made the first run append
C4_Witness ==
    /\ run = 2
    /\ pc = "done"
    /\ prev.written
    /\ requests = { << "a.py", 0, "add" >> }
    /\ prev.requests = requests
    /\ ~EndsWith(LineOf(disk0, "a.py", 0), TYPE_IGNORE)
    /\ EndsWith(LineOf(disk, "a.py", 0), TYPE_IGNORE)

(***************************************************************************)
(* C5. Out-of-range safety: an iteration on a diagnostic that has a rule   *)
(* and a line index at or past the end of its file raises nothing and      *)
(* changes no buffer, the second pass raises nothing, and every buffer     *)
(* keeps the number of lines it was loaded with.                           *)
(***************************************************************************)
C5_OutOfRangeSafe ==
    /\ [](\A f \in DOMAIN modified_files :
              Len(modified_files[f]) = Len(disk0[f]))
    /\ [][ ( /\ Iterates
             /\ Ruled(diagnostic')
             /\ LineNo(diagnostic') >= Len(disk[diagnostic'.file]) )
               => (pc' # "exit1" /\ BuffersKept) ]_vars
    /\ [][ pc = "remove" => pc' # "exit1" ]_vars

\* the run is over, and it iterated on a removal and on an addition past the end
C5_Witness ==
    /\ pc = "done"
    /\ Ruled(diagnostic)
    /\ diagnostic.rule = UNNECESSARY
    /\ LineNo(diagnostic) >= Len(disk0[diagnostic.file])
    /\ stderr["out_of_range"] > 0

(***************************************************************************)
(* C6 as stated. OutOfRange reporting: an iteration on a diagnostic whose  *)
(* line index is outside its file (negative, or at or past the end),       *)
(* whatever its rule, changes no buffer and prints a warning.              *)
(***************************************************************************)
C6_EveryOutOfRangeWarns ==
    [][ ( /\ Iterates
          /\ Ruled(diagnostic')
          /\ \/ LineNo(diagnostic') < 0
             \/ LineNo(diagnostic') >= Len(disk[diagnostic'.file]) )
            => /\ BuffersKept
               /\ stderr'["out_of_range"] = stderr["out_of_range"] + 1 ]_vars

(***************************************************************************)
(* C6 amended. An iteration on a diagnostic whose rule is not the removal  *)
(* rule and whose line index is at or past the end of its file changes no  *)
(* buffer and prints one warning; an iteration on a removal diagnostic     *)
(* with a line index outside the file, or on any diagnostic with a         *)
(* negative line index, changes no buffer and prints nothing.              *)
(***************************************************************************)
C6_AdditionPastEndWarns ==
    [][ ( /\ Iterates
          /\ Ruled(diagnostic')
          /\ \/ LineNo(diagnostic') < 0
             \/ LineNo(diagnostic') >= Len(disk[diagnostic'.file]) )
            => /\ BuffersKept
               /\ pc' = "classify"
               /\ remove_ignore_lines' =
                     IF diagnostic'.file \in DOMAIN remove_ignore_lines
                     THEN remove_ignore_lines
                     ELSE Extend(remove_ignore_lines, diagnostic'.file, {})
               /\ IF diagnostic'.rule # UNNECESSARY /\ LineNo(diagnostic') >= 0
                  THEN stderr' = [stderr EXCEPT !["out_of_range"] = @ + 1]
                  ELSE stderr' = stderr ]_vars

\* an addition past the end of its file has just been warned about
C6_Witness ==
    /\ pc = "classify"
    /\ Ruled(diagnostic)
    /\ diagnostic.rule # UNNECESSARY
    /\ LineNo(diagnostic) >= Len(disk[diagnostic.file])
    /\ stderr["out_of_range"] > 0

(***************************************************************************)
(* C7. Marker-not-found safety: a removal request on a line that ends with *)
(* neither marker when the second pass visits it leaves the line as it is  *)
(* and prints an error; the second pass never raises, it can go on after   *)
(* the error, and when it is over every other removal request has been     *)
(* applied.                                                                *)
(***************************************************************************)
\* the lines a removal is requested for that end with neither marker when the
\* second pass starts (a line an addition is requested for ends with one)
Unmarked ==
    { t \in Targets :
        /\ Asks(t[1], t[2], "remove")
        /\ ~Asks(t[1], t[2], "add")
        /\ ~EndsWith(LineOf(disk0, t[1], t[2]), TYPE_IGNORE)
        /\ ~EndsWith(LineOf(disk0, t[1], t[2]), PYRIGHT_IGNORE) }

C7_MarkerNotFoundSafe ==
    /\ []( pc \in { "remove", "output", "done" } =>
             \A t \in Unmarked :
                 LineOf(modified_files, t[1], t[2]) = LineOf(disk0, t[1], t[2]) )
    /\ []( pc = "remove" =>
             /\ stderr["marker_not_found"] = Cardinality(Unmarked \ rem_todo)
             /\ stderr["marker_not_found"] > 0 => ENABLED (RemoveLine \/ EndRemove) )
    /\ [][ pc = "remove" => pc' \in { "remove", "output" } ]_vars
    /\ []( PassesOver =>
             /\ stderr["marker_not_found"] = Cardinality(Unmarked)
             /\ \A t \in Targets \ Unmarked :
                   Asks(t[1], t[2], "remove") =>
                       IF \/ Asks(t[1], t[2], "add")
                          \/ EndsWith(LineOf(disk0, t[1], t[2]), TYPE_IGNORE)
                       THEN ~Contains(LineOf(modified_files, t[1], t[2]),
                                      TYPE_IGNORE)
                       ELSE ~Contains(LineOf(modified_files, t[1], t[2]),
                                      PYRIGHT_IGNORE) )

\* the run is over; a removal of a.py found no marker, one of b.py was applied
C7_Witness ==
    /\ pc = "done"
    /\ << "a.py", 0 >> \in Unmarked
    /\ Asks("b.py", 0, "remove")
    /\ stderr["marker_not_found"] = 1
    /\ LineOf(modified_files, "b.py", 0) # LineOf(disk0, "b.py", 0)

(***************************************************************************)
(* C8. No file is written before the output: the disk is as it was until   *)
(* both passes are over, it stays so unless the run is in place, and it is *)
(* as it was when the run ends with exit code 1.                           *)
(***************************************************************************)
C8_NoWriteBeforeOutput ==
    /\ ~PassesOver => disk = disk0
    /\ ~args.inplace => disk = disk0
    /\ pc = "exit1" => disk = disk0
    /\ disk # disk0 => (todo = 0 /\ rem_todo = {} /\ args.inplace /\ ~args.diff)

\* an in-place run is over and has changed a file
C8_Witness ==
    /\ pc = "done"
    /\ args.inplace
    /\ disk # disk0
    /\ stderr["success"] = 1

(***************************************************************************)
(* C9. Removal result: a line the second pass visits that ends with a      *)
(* marker becomes the text before that trailing marker, trailing           *)
(* whitespace trimmed, plus one newline, also when the text before the     *)
(* trailing marker contains the marker.                                    *)
(***************************************************************************)
C9_RemovalKeepsPrefix ==
    (run = 1 /\ PassesOver) =>
        \A t \in Targets :
            (Asks(t[1], t[2], "remove") /\ ~Asks(t[1], t[2], "add")) =>
                LET before == LineOf(disk0, t[1], t[2])
                    after == LineOf(modified_files, t[1], t[2])
                IN  IF EndsWith(before, TYPE_IGNORE)
                    THEN after = BeforeTrailing(before, TYPE_IGNORE)
                    ELSE EndsWith(before, PYRIGHT_IGNORE)
                            => after = BeforeTrailing(before, PYRIGHT_IGNORE)

(***************************************************************************)
(* C10. Order independence: once both passes are over, every line of every *)
(* buffer is a function of its original text, of whether an addition       *)
(* targets it and of whether a removal targets it, whatever the order of   *)
(* the diagnostics in the report.                                          *)
(***************************************************************************)
Expected(text, add, remove) ==
    LET added == IF add /\ ~EndsWith(text, TYPE_IGNORE)
                 THEN rstrip(text) \o <<" ", " ">> \o TYPE_IGNORE \o NL
                 ELSE text
    IN  IF ~remove THEN added
        ELSE IF EndsWith(added, TYPE_IGNORE)
             THEN rstrip(split0(added, TYPE_IGNORE)) \o NL
        ELSE IF EndsWith(added, PYRIGHT_IGNORE)
             THEN rstrip(split0(added, PYRIGHT_IGNORE)) \o NL
        ELSE added

C10_OrderIndependent ==
    PassesOver =>
        \A f \in DOMAIN modified_files :
            /\ Len(modified_files[f]) = Len(disk0[f])
            /\ \A n \in 0..(Len(disk0[f]) - 1) :
                  LineOf(modified_files, f, n)
                      = Expected(LineOf(disk0, f, n), Asks(f, n, "add"),
                                 Asks(f, n, "remove"))

\* the run is over; the removal of a line came first in the report, the
\* addition to the same line second
C10_Witness ==
    /\ pc = "done"
    /\ file_order = << "a.py" >>
    /\ Asks("a.py", 0, "add")
    /\ Asks("a.py", 0, "remove")
    /\ diagnostic.rule # UNNECESSARY
    /\ ~EndsWith(LineOf(disk0, "a.py", 0), TYPE_IGNORE)

====
